---- MODULE Spec2Model ----
(***************************************************************************)
(* Resource lifecycle of the podcast backend: the creation endpoints of    *)
(* app/api/podcasts.py (upload, generate, analyze-and-generate-direct,     *)
(* analyze-and-generate, generate-from-youtube), delete_podcast, the       *)
(* read-only endpoints, and the background pipeline of one Job.            *)
(*                                                                         *)
(* The record store (data_service), the blob store (s3_storage) and the    *)
(* background tasks (app.tasks.process_podcast) are collaborators whose    *)
(* code is not part of src/; they are modelled from the interfaces the     *)
(* handlers use and from spec.md sections 4.2 and 6.                       *)
(***************************************************************************)
EXTENDS Integers, Sequences, FiniteSets, TLC

\* ------------------------------------------------------------------ bounds
MaxReq == 2      \* creation requests served in one behaviour
MaxLines == 4    \* lines of a script given to the segmenter
MaxBetween == 1  \* other scripts segmented between two calls on the same script
MaxTokens == 4   \* tokens of a response of the analysis capability
MaxYtTokens == 2 \* tokens of a response of the video-analysis capability
MaxDlgLines == 2 \* lines of a script given to the synthesis

\* --------------------------------------------------------------- constants
None == 0                        \* Python's None for an identifier or a blob key
Null == "None"                   \* Python's None for a string-valued field
HTTP_200_OK == 200
HTTP_400_BAD_REQUEST == 400
HTTP_404_NOT_FOUND == 404
HTTP_500_INTERNAL_SERVER_ERROR == 500

max_upload_size == 2             \* settings.max_upload_size, in abstract size units
allowed_extensions == {".mp3", ".mp4"}    \* settings.allowed_extensions
ForeignKey == -1                 \* a key string the blob store never issued ("test_key")

VARIABLES
    podcasts,   \* record store: podcast_id -> Content Item record
    jobs,       \* record store: job_id -> Job record
    blobs,      \* blob store: the set of keys that hold a blob
    tasks,      \* background executions: job_id -> position of the pipeline
    nextId,     \* source of fresh uuid4 values
    nextKey,    \* source of fresh blob keys chosen by the blob store
    served,     \* number of creation requests answered so far
    accepted,   \* number of creation requests answered with success
    uploaded_for, \* podcast_id -> the source blob its creation request uploaded
    last        \* the response returned by the step just taken, if it was a request

vars == <<podcasts, jobs, blobs, tasks, nextId, nextKey, served, accepted,
          uploaded_for, last>>

\* The services of app/services are functions of their arguments; each is
\* exercised on its own, with the state above left as it is.
VARIABLES
    seg_script,   \* the script under study, a string (sequence of characters)
    seg_language, \* the language code it is segmented with
    seg_called,   \* what the latest call of _parse_dialogue_script was given
    seg_out,      \* the list that call returned
    seg_first,    \* what the first call on the script under study returned
    seg_between,  \* calls on other scripts made since
    seg_frame     \* the locals of the call that returned last

segvars == <<seg_script, seg_language, seg_called, seg_out, seg_first,
             seg_between, seg_frame>>

VARIABLES
    ex_filename,  \* the name of the file given to the extractor
    ex_outcome,   \* what the analysis capability does: "text" or "error"
    ex_response,  \* the text it answers with
    ex_entry,     \* the method of ContentExtractor that was called, if any
    ex_result     \* what that call returned or raised

exvars == <<ex_filename, ex_outcome, ex_response, ex_entry, ex_result>>

VARIABLES
    yt_captions,  \* whether the video has captions that can be downloaded
    yt_meta,      \* what the video-analysis capability answers when asked first
    yt_content,   \* what it answers when asked again
    yt_entry,     \* the method of YouTubeExtractor that was called, if any
    yt_result     \* what that call returned or raised

ytvars == <<yt_captions, yt_meta, yt_content, yt_entry, yt_result>>

VARIABLES
    dlg_script,   \* the script given to generate_dialogue_audio
    dlg_language, \* the language code given with it
    dlg_env,      \* what the synthesis capabilities do during the call
    dlg_called,   \* the function that was called, if any
    dlg_result    \* what it returned or raised, and the capability calls it made

dlgvars == <<dlg_script, dlg_language, dlg_env, dlg_called, dlg_result>>

svcvars == <<segvars, exvars, ytvars, dlgvars>>

\* ------------------------------------------------------- partial functions
Has(f, k) == k \in DOMAIN f
Put(f, k, v) == [x \in DOMAIN f \cup {k} |-> IF x = k THEN v ELSE f[x]]
Drop(f, k) == [x \in DOMAIN f \ {k} |-> f[x]]
Merge(f, k, upd) == [f EXCEPT ![k] = [fld \in DOMAIN f[k] |->
                        IF fld \in DOMAIN upd THEN upd[fld] ELSE f[k][fld]]]

\* --------------------------------------------------------------- the store
\* The stores and the call log a handler threads through its statements.
Cur == [podcasts |-> podcasts, jobs |-> jobs, blobs |-> blobs, tasks |-> tasks,
        nextId |-> nextId, nextKey |-> nextKey, calls |-> <<>>]

Call(st, name, arg, ok) == [st EXCEPT !.calls = Append(@, <<name, arg, ok>>)]

\* data_service.save_podcast(podcast_data) -> bool
save_podcast(st, data, ok) ==
    Call(IF ok THEN [st EXCEPT !.podcasts = Put(@, data.id, data)] ELSE st,
         "save_podcast", data.id, ok)

\* data_service.save_job(job_data) -> bool
save_job(st, data, ok) ==
    Call(IF ok THEN [st EXCEPT !.jobs = Put(@, data.id, data)] ELSE st,
         "save_job", data.id, ok)

\* data_service.get_podcast(podcast_id) -> record or None
get_podcast(ps, podcast_id) ==
    IF Has(ps, podcast_id) THEN <<ps[podcast_id]>> ELSE <<>>

\* data_service.delete_podcast(podcast_id) -> bool
data_delete_podcast(st, podcast_id, ok) ==
    LET done == ok /\ Has(st.podcasts, podcast_id) IN
    Call(IF done THEN [st EXCEPT !.podcasts = Drop(@, podcast_id)] ELSE st,
         "delete_podcast", podcast_id, done)

\* s3_storage.upload_file(...) -> key or None
s3_upload_file(st, ok) ==
    Call(IF ok THEN [st EXCEPT !.blobs = @ \cup {st.nextKey}, !.nextKey = @ + 1]
               ELSE st,
         "upload_file", IF ok THEN st.nextKey ELSE None, ok)

\* s3_storage.delete_file(key) -> bool
s3_delete_file(st, key, ok) ==
    Call(IF ok THEN [st EXCEPT !.blobs = @ \ {key}] ELSE st, "delete_file", key, ok)

\* No script generation has run in this execution.
NoScript == [calls |-> <<>>, raised |-> FALSE, script |-> Null]

\* start_processing_task / start_analyze_generate_task / start_youtube_generate_task
start_task(st, podcast_id, job_id, s3_key) ==
    Call([st EXCEPT !.tasks = Put(@, job_id,
              [podcast_id |-> podcast_id, s3_key |-> s3_key, pc |-> "queued",
               phase |-> 0, audio |-> None, gen |-> NoScript])],
         "start_task", job_id, TRUE)

\* An identifier computed once and used again for every record.
uuid4_reused(st) == 1

\* uuid.uuid4(): a value no earlier call returned
uuid4(st) == st.nextId
Allocated(st) == [st EXCEPT !.nextId = @ + 1]

\* ------------------------------------------------------------------ return
\* No request returned in the step just taken (a background step, or the start).
NoResponse == [endpoint |-> "none", code |-> None, podcast_id |-> None,
               job_id |-> None, status |-> "none", uploaded |-> None, calls |-> <<>>]

\* The response returned while the background execution just started is dropped.
Respond_without_task(st, endpoint, code, podcast_id, job_id, status, uploaded) ==
    /\ podcasts' = st.podcasts
    /\ jobs' = st.jobs
    /\ blobs' = st.blobs
    /\ tasks' = tasks
    /\ nextId' = st.nextId
    /\ nextKey' = st.nextKey
    /\ served' = served + 1
    /\ accepted' = IF code = HTTP_200_OK THEN accepted + 1 ELSE accepted
    /\ uploaded_for' = IF code = HTTP_200_OK /\ uploaded # None
                       THEN Put(uploaded_for, podcast_id, uploaded) ELSE uploaded_for
    /\ last' = [endpoint |-> endpoint, code |-> code,
                podcast_id |-> podcast_id, job_id |-> job_id,
                status |-> status, uploaded |-> uploaded, calls |-> st.calls]
    /\ UNCHANGED svcvars

Respond(st, endpoint, code, podcast_id, job_id, status, uploaded) ==
    /\ podcasts' = st.podcasts
    /\ jobs' = st.jobs
    /\ blobs' = st.blobs
    /\ tasks' = st.tasks
    /\ nextId' = st.nextId
    /\ nextKey' = st.nextKey
    /\ served' = served + 1
    /\ accepted' = IF code = HTTP_200_OK THEN accepted + 1 ELSE accepted
    /\ uploaded_for' = IF code = HTTP_200_OK /\ uploaded # None
                       THEN Put(uploaded_for, podcast_id, uploaded) ELSE uploaded_for
    /\ last' = [endpoint |-> endpoint, code |-> code,
                podcast_id |-> podcast_id, job_id |-> job_id,
                status |-> status, uploaded |-> uploaded, calls |-> st.calls]
    /\ UNCHANGED svcvars

\* ---------------------------------------------------------------- generate
\* A Content Item created as already completed.
generate_podcast_data_completed(podcast_id) ==
    [id |-> podcast_id, status |-> "completed",
     s3_key |-> None, audio_s3_key |-> None]

generate_podcast_data(podcast_id) ==
    [id |-> podcast_id, status |-> "processing",
     s3_key |-> None, audio_s3_key |-> None]

generate_job_data(job_id, podcast_id) ==
    [id |-> job_id, podcast_id |-> podcast_id, type |-> "generate",
     status |-> "pending", progress |-> 0, error_message |-> Null,
     s3_key |-> None]

\* The rollback left out: the Content Item of a failed Job write stays.
generate_rollback_skipped(st, podcast_id, del_ok) == st

generate_rollback(st, podcast_id, del_ok) ==
    data_delete_podcast(st, podcast_id, del_ok)

generate_podcast ==
    /\ served < MaxReq
    /\ LET podcast_id == uuid4(Cur)
           job_id == uuid4(Allocated(Cur))
           st0 == Allocated(Allocated(Cur))
       IN \E ci_ok \in BOOLEAN :
            LET st1 == save_podcast(st0, generate_podcast_data(podcast_id), ci_ok) IN
            IF ~ci_ok
            THEN Respond(st1, "generate", HTTP_500_INTERNAL_SERVER_ERROR,
                         podcast_id, job_id, "error", None)
            ELSE \E job_ok \in BOOLEAN :
                   LET st2 == save_job(st1, generate_job_data(job_id, podcast_id), job_ok) IN
                   IF ~job_ok
                   THEN \E del_ok \in BOOLEAN :
                          Respond(generate_rollback(st2, podcast_id, del_ok), "generate",
                                  HTTP_500_INTERNAL_SERVER_ERROR,
                                  podcast_id, job_id, "error", None)
                   ELSE Respond(start_task(st2, podcast_id, job_id, None), "generate",
                                HTTP_200_OK, podcast_id, job_id, "processing", None)

\* ------------------------------------------------------------ request inputs
Filenames == {"", "talk.mp3", "clip.mp4", "notes.exe"}
ContentTypes == {Null, "audio", "video", "text"}     \* None, or the major type
Files == [filename : Filenames, size : 0 .. max_upload_size + 1,
          content_type : ContentTypes]

\* Path(filename).suffix.lower()
suffix(filename) ==
    CASE filename = "talk.mp3" -> ".mp3"
      [] filename = "clip.mp4" -> ".mp4"
      [] filename = "notes.exe" -> ".exe"
      [] filename = "TALK.MP3" -> ".mp3"
      [] filename = "talk.mp3.txt" -> ".txt"
      [] OTHER -> ""

\* A validation that lets every file through.
validate_file_any(file) == <<TRUE, "">>

validate_file(file) ==
    IF file.filename = "" THEN <<FALSE, "empty filename">>
    ELSE IF suffix(file.filename) \notin allowed_extensions
         THEN <<FALSE, "unsupported file type">>
    ELSE IF file.size > max_upload_size THEN <<FALSE, "file too large">>
    ELSE IF file.size = 0 THEN <<FALSE, "file is empty">>
    ELSE <<TRUE, "">>

\* ------------------------------------------------------------------ upload
upload_podcast_data(podcast_id, s3_key) ==
    [id |-> podcast_id, status |-> "processing",
     s3_key |-> s3_key, audio_s3_key |-> None]

upload_job_data(job_id, podcast_id, s3_key) ==
    [id |-> job_id, podcast_id |-> podcast_id, type |-> "upload",
     status |-> "pending", progress |-> 0, error_message |-> Null,
     s3_key |-> s3_key]

\* The result of save_job not looked at.
upload_job_saved_unchecked(success) == TRUE

\* if not success: after save_job
upload_job_saved(success) == success

upload_file ==
    /\ served < MaxReq
    /\ \E file \in Files :
         IF ~validate_file(file)[1]
         THEN Respond(Cur, "upload", HTTP_400_BAD_REQUEST, None, None, "error", None)
         ELSE \E up_ok \in BOOLEAN :
           LET st1 == s3_upload_file(Cur, up_ok)
               s3_key == IF up_ok THEN Cur.nextKey ELSE None
           IN
           IF s3_key = None
           THEN Respond(st1, "upload", HTTP_500_INTERNAL_SERVER_ERROR,
                        None, None, "error", None)
           ELSE
             LET podcast_id == uuid4(st1)
                 job_id == uuid4(Allocated(st1))
                 st2 == Allocated(Allocated(st1))
             IN \E ci_ok \in BOOLEAN :
                  LET st3 == save_podcast(st2, upload_podcast_data(podcast_id, s3_key), ci_ok) IN
                  IF ~ci_ok
                  THEN \E b_ok \in BOOLEAN :
                         Respond(s3_delete_file(st3, s3_key, b_ok), "upload",
                                 HTTP_500_INTERNAL_SERVER_ERROR,
                                 podcast_id, job_id, "error", s3_key)
                  ELSE \E job_ok \in BOOLEAN :
                         LET st4 == save_job(st3, upload_job_data(job_id, podcast_id, s3_key),
                                             job_ok) IN
                         IF ~upload_job_saved(job_ok)
                         THEN \E del_ok \in BOOLEAN, b_ok \in BOOLEAN :
                                Respond(s3_delete_file(
                                            data_delete_podcast(st4, podcast_id, del_ok),
                                            s3_key, b_ok),
                                        "upload", HTTP_500_INTERNAL_SERVER_ERROR,
                                        podcast_id, job_id, "error", s3_key)
                         ELSE Respond(start_task(st4, podcast_id, job_id, s3_key), "upload",
                                      HTTP_200_OK, podcast_id, job_id, "processing", s3_key)

\* ----------------------------------------------- analyze-and-generate-direct
\* "video" if file.content_type.startswith("video/") else "audio"; None has no startswith
direct_source_type(content_type) ==
    IF content_type = Null THEN "AttributeError"
    ELSE IF content_type = "video" THEN "video" ELSE "audio"

direct_podcast_data(podcast_id) ==
    [id |-> podcast_id, status |-> "processing",
     s3_key |-> None, audio_s3_key |-> None]

\* A Job created with an empty, non-null error detail.
direct_job_data_empty_error(job_id, podcast_id, s3_key) ==
    [id |-> job_id, podcast_id |-> podcast_id, type |-> "analyze_generate",
     status |-> "pending", progress |-> 0, error_message |-> "",
     s3_key |-> s3_key]

direct_job_data(job_id, podcast_id, s3_key) ==
    [id |-> job_id, podcast_id |-> podcast_id, type |-> "analyze_generate",
     status |-> "pending", progress |-> 0, error_message |-> Null,
     s3_key |-> s3_key]

analyze_and_generate_direct ==
    /\ served < MaxReq
    /\ \E file \in Files :
         IF ~validate_file(file)[1]
         THEN Respond(Cur, "direct", HTTP_400_BAD_REQUEST, None, None, "error", None)
         ELSE \E up_ok \in BOOLEAN :
           LET st1 == s3_upload_file(Cur, up_ok)
               s3_key == IF up_ok THEN Cur.nextKey ELSE None
           IN
           IF s3_key = None
           THEN Respond(st1, "direct", HTTP_500_INTERNAL_SERVER_ERROR,
                        None, None, "error", None)
           ELSE IF direct_source_type(file.content_type) = "AttributeError"
           THEN Respond(st1, "direct", HTTP_500_INTERNAL_SERVER_ERROR,
                        None, None, "error", s3_key)
           ELSE
             LET podcast_id == uuid4(st1)
                 job_id == uuid4(Allocated(st1))
                 st2 == Allocated(Allocated(st1))
             IN \E ci_ok \in BOOLEAN :
                  LET st3 == save_podcast(st2, direct_podcast_data(podcast_id), ci_ok) IN
                  IF ~ci_ok
                  THEN \E b_ok \in BOOLEAN :
                         Respond(s3_delete_file(st3, s3_key, b_ok), "direct",
                                 HTTP_500_INTERNAL_SERVER_ERROR,
                                 podcast_id, job_id, "error", s3_key)
                  ELSE \E job_ok \in BOOLEAN :
                         LET st4 == save_job(st3, direct_job_data(job_id, podcast_id, s3_key),
                                             job_ok) IN
                         IF ~job_ok
                         THEN \E del_ok \in BOOLEAN, b_ok \in BOOLEAN :
                                Respond(s3_delete_file(
                                            data_delete_podcast(st4, podcast_id, del_ok),
                                            s3_key, b_ok),
                                        "direct", HTTP_500_INTERNAL_SERVER_ERROR,
                                        podcast_id, job_id, "error", s3_key)
                         ELSE Respond(start_task(st4, podcast_id, job_id, s3_key), "direct",
                                      HTTP_200_OK, podcast_id, job_id, "processing", s3_key)

\* ------------------------------------------------------ analyze-and-generate
SourceTypes == {"audio", "video", "invalid"}
ClientKeys == (1 .. nextKey - 1) \cup {ForeignKey}

analyze_podcast_data(podcast_id) ==
    [id |-> podcast_id, status |-> "processing",
     s3_key |-> None, audio_s3_key |-> None]

\* A Job created with progress already on the way.
analyze_job_data_halfway(job_id, podcast_id, file_s3_key) ==
    [id |-> job_id, podcast_id |-> podcast_id, type |-> "analyze_generate",
     status |-> "pending", progress |-> 50, error_message |-> Null,
     s3_key |-> file_s3_key]

analyze_job_data(job_id, podcast_id, file_s3_key) ==
    [id |-> job_id, podcast_id |-> podcast_id, type |-> "analyze_generate",
     status |-> "pending", progress |-> 0, error_message |-> Null,
     s3_key |-> file_s3_key]

analyze_and_generate_podcast ==
    /\ served < MaxReq
    /\ \E file_s3_key \in ClientKeys, source_type \in SourceTypes :
         IF source_type \notin {"audio", "video"}
         THEN Respond(Cur, "analyze", HTTP_400_BAD_REQUEST, None, None, "error", None)
         ELSE
           LET podcast_id == uuid4(Cur)
               job_id == uuid4(Allocated(Cur))
               st0 == Allocated(Allocated(Cur))
           IN \E ci_ok \in BOOLEAN :
                LET st1 == save_podcast(st0, analyze_podcast_data(podcast_id), ci_ok) IN
                IF ~ci_ok
                THEN Respond(st1, "analyze", HTTP_500_INTERNAL_SERVER_ERROR,
                             podcast_id, job_id, "error", None)
                ELSE \E job_ok \in BOOLEAN :
                       LET st2 == save_job(st1,
                                      analyze_job_data(job_id, podcast_id, file_s3_key),
                                      job_ok) IN
                       IF ~job_ok
                       THEN \E del_ok \in BOOLEAN :
                              Respond(data_delete_podcast(st2, podcast_id, del_ok),
                                      "analyze", HTTP_500_INTERNAL_SERVER_ERROR,
                                      podcast_id, job_id, "error", None)
                       ELSE Respond(start_task(st2, podcast_id, job_id, file_s3_key),
                                    "analyze", HTTP_200_OK,
                                    podcast_id, job_id, "processing", None)

\* ----------------------------------------------------- generate-from-youtube
Urls == {"", "https://www.youtube.com/watch?v=dQw4w9WgXcQ", "https://example.com/v"}

\* YouTubeExtractor.validate_url: non-blank and matching one of the four patterns
validate_url(url) ==
    IF url = "" THEN <<FALSE, "empty URL">>
    ELSE IF url = "https://www.youtube.com/watch?v=dQw4w9WgXcQ" THEN <<TRUE, "">>
    ELSE <<FALSE, "invalid YouTube URL">>

youtube_podcast_data(podcast_id) ==
    [id |-> podcast_id, status |-> "processing",
     s3_key |-> None, audio_s3_key |-> None]

\* A Job created as already processing.
youtube_job_data_processing(job_id, podcast_id) ==
    [id |-> job_id, podcast_id |-> podcast_id, type |-> "youtube_generate",
     status |-> "processing", progress |-> 0, error_message |-> Null,
     s3_key |-> None]

youtube_job_data(job_id, podcast_id) ==
    [id |-> job_id, podcast_id |-> podcast_id, type |-> "youtube_generate",
     status |-> "pending", progress |-> 0, error_message |-> Null,
     s3_key |-> None]

generate_from_youtube ==
    /\ served < MaxReq
    /\ \E url \in Urls :
         IF ~validate_url(url)[1]
         THEN Respond(Cur, "youtube", HTTP_400_BAD_REQUEST, None, None, "error", None)
         ELSE \E meta_ok \in BOOLEAN :
           IF ~meta_ok     \* extract_metadata raised
           THEN Respond(Cur, "youtube", HTTP_400_BAD_REQUEST, None, None, "error", None)
           ELSE
             LET podcast_id == uuid4(Cur)
                 job_id == uuid4(Allocated(Cur))
                 st0 == Allocated(Allocated(Cur))
             IN \E ci_ok \in BOOLEAN :
                  LET st1 == save_podcast(st0, youtube_podcast_data(podcast_id), ci_ok) IN
                  IF ~ci_ok
                  THEN Respond(st1, "youtube", HTTP_500_INTERNAL_SERVER_ERROR,
                               podcast_id, job_id, "error", None)
                  ELSE \E job_ok \in BOOLEAN :
                         LET st2 == save_job(st1, youtube_job_data(job_id, podcast_id),
                                             job_ok) IN
                         IF ~job_ok
                         THEN \E del_ok \in BOOLEAN :
                                Respond(data_delete_podcast(st2, podcast_id, del_ok),
                                        "youtube", HTTP_500_INTERNAL_SERVER_ERROR,
                                        podcast_id, job_id, "error", None)
                         ELSE Respond(start_task(st2, podcast_id, job_id, None),
                                      "youtube", HTTP_200_OK,
                                      podcast_id, job_id, "processing", None)

\* ------------------------------------------------------------------ delete
\* A failed blob deletion ends the request before the record deletion.
delete_stops_on_blob_failure(st, podcast, b1_ok, b2_ok, del_ok) ==
    LET st1 == IF podcast.s3_key # None
               THEN s3_delete_file(st, podcast.s3_key, b1_ok) ELSE st
        st2 == IF podcast.audio_s3_key # None
               THEN s3_delete_file(st1, podcast.audio_s3_key, b2_ok) ELSE st1
    IN IF \E i \in 1 .. Len(st2.calls) : ~st2.calls[i][3]
       THEN st2
       ELSE data_delete_podcast(st2, podcast.id, del_ok)

\* Lines 281-292: both blob deletions, then the record deletion.
delete_blobs_then_record(st, podcast, b1_ok, b2_ok, del_ok) ==
    LET st1 == IF podcast.s3_key # None
               THEN s3_delete_file(st, podcast.s3_key, b1_ok) ELSE st
        st2 == IF podcast.audio_s3_key # None
               THEN s3_delete_file(st1, podcast.audio_s3_key, b2_ok) ELSE st1
    IN data_delete_podcast(st2, podcast.id, del_ok)

\* A successful delete that also stops the executions of the Content Item.
RespondDelete_cancels(st, podcast_id, code) ==
    /\ podcasts' = st.podcasts
    /\ blobs' = st.blobs
    /\ tasks' = [j \in DOMAIN tasks |->
                   IF tasks[j].podcast_id = podcast_id /\ code = HTTP_200_OK
                   THEN [tasks[j] EXCEPT !.pc = "done"] ELSE tasks[j]]
    /\ last' = [endpoint |-> "delete", code |-> code, podcast_id |-> podcast_id,
                job_id |-> None, status |-> "none", uploaded |-> None,
                calls |-> st.calls]
    /\ UNCHANGED <<jobs, nextId, nextKey, served, accepted, uploaded_for, svcvars>>

\* A successful delete that also removes the Jobs of the Content Item.
RespondDelete_cascades(st, podcast_id, code) ==
    /\ podcasts' = st.podcasts
    /\ blobs' = st.blobs
    /\ jobs' = IF code = HTTP_200_OK
               THEN [j \in {k \in DOMAIN jobs : jobs[k].podcast_id # podcast_id} |-> jobs[j]]
               ELSE jobs
    /\ last' = [endpoint |-> "delete", code |-> code, podcast_id |-> podcast_id,
                job_id |-> None, status |-> "none", uploaded |-> None,
                calls |-> st.calls]
    /\ UNCHANGED <<tasks, nextId, nextKey, served, accepted, uploaded_for, svcvars>>

RespondDelete(st, podcast_id, code) ==
    /\ podcasts' = st.podcasts
    /\ blobs' = st.blobs
    /\ last' = [endpoint |-> "delete", code |-> code, podcast_id |-> podcast_id,
                job_id |-> None, status |-> "none", uploaded |-> None,
                calls |-> st.calls]
    /\ UNCHANGED <<jobs, tasks, nextId, nextKey, served, accepted, uploaded_for,
                   svcvars>>

\* The identifiers a client can ask to delete: those a successful creation returned
\* (its Job still names it, also after the Content Item is gone) and those a listing
\* shows. An identifier that never existed takes the same not-found path as a
\* deleted one.
RequestedIds == DOMAIN podcasts \cup {jobs[j].podcast_id : j \in DOMAIN jobs}

delete_podcast ==
    /\ \E podcast_id \in RequestedIds :
         LET found == get_podcast(podcasts, podcast_id) IN
         IF found = <<>>
         THEN RespondDelete(Cur, podcast_id, HTTP_404_NOT_FOUND)
         ELSE \E b1_ok \in BOOLEAN, b2_ok \in BOOLEAN, del_ok \in BOOLEAN :
                LET st == delete_blobs_then_record(Cur, found[1], b1_ok, b2_ok, del_ok)
                    success == st.calls[Len(st.calls)][3]
                IN RespondDelete(st, podcast_id,
                                 IF success THEN HTTP_200_OK
                                 ELSE HTTP_500_INTERNAL_SERVER_ERROR)

\* ---------------------------------------------------------------- pipeline
\* The background execution of one Job (spec.md 4.2): the phases of each job
\* kind, in order, and the progress a Job shows once a phase has finished. The
\* phases are the suspension points of spec.md 5; segmenting the script is pure and
\* belongs to the synthesize phase.
Phases(type) ==
    CASE type = "upload" -> <<"fetch", "transcribe">>
      [] type = "generate" -> <<"script", "synthesize", "upload">>
      [] type = "analyze_generate" ->
             <<"fetch", "extract", "script", "synthesize", "upload">>
      [] type = "youtube_generate" ->
             <<"metadata", "extract", "script", "synthesize", "upload">>

ProgressAfter(phase) ==
    CASE phase \in {"fetch", "metadata"} -> 10
      [] phase \in {"extract", "transcribe"} -> 30
      [] phase = "script" -> 60
      [] phase = "synthesize" -> 95
      [] phase = "upload" -> 98

\* ------------------------------------------------------- script generation
\* What the text-generation capability does with one request: it answers with
\* text, answers with empty text, or the HTTP call fails.
GeminiOutcomes == {"text", "empty", "error"}

\* The answer text of a request (the model stands for the words by the prompt
\* they answer).
GeminiText(prompt, outcome) == IF outcome = "text" THEN "text of " \o prompt ELSE ""

\* The empty answer handed back to the caller as if it were a result.
call_gemini_api_unchecked(prompt, outcome) ==
    IF outcome = "error"
    THEN [raised |-> TRUE, content |-> Null]
    ELSE [raised |-> FALSE, content |-> GeminiText(prompt, outcome)]

\* AIService._call_gemini_api: raise_for_status, then `if not content: raise`;
\* every exception leaves as an Exception.
call_gemini_api(prompt, outcome) ==
    IF outcome = "error"
    THEN [raised |-> TRUE, content |-> Null]
    ELSE LET content == GeminiText(prompt, outcome) IN
         IF content = "" THEN [raised |-> TRUE, content |-> Null]
         ELSE [raised |-> FALSE, content |-> content]

\* A failed call answered with whatever text there is so far, without raising.
generate_script_from_topic_partial(r1, r2) ==
    LET outline == call_gemini_api("outline", r1)
        script == call_gemini_api("script", r2)
    IN [calls |-> IF outline.raised THEN <<[prompt |-> "outline", outcome |-> r1]>>
                  ELSE <<[prompt |-> "outline", outcome |-> r1],
                         [prompt |-> "script", outcome |-> r2]>>,
        raised |-> FALSE,
        script |-> IF outline.raised THEN ""
                   ELSE IF script.raised THEN outline.content ELSE script.content]

\* AIService.generate_script_from_topic, lines 706-724: the outline call, then
\* the script call whose prompt embeds the outline; any exception is raised
\* again as the generation-failed Exception and nothing is returned.
generate_script_from_topic(r1, r2) ==
    LET outline == call_gemini_api("outline", r1) IN
    IF outline.raised
    THEN [calls |-> <<[prompt |-> "outline", outcome |-> r1]>>,
          raised |-> TRUE, script |-> Null]
    ELSE LET script == call_gemini_api("script", r2)
             calls == <<[prompt |-> "outline", outcome |-> r1],
                        [prompt |-> "script", outcome |-> r2]>>
         IN IF script.raised
            THEN [calls |-> calls, raised |-> TRUE, script |-> Null]
            ELSE [calls |-> calls, raised |-> FALSE, script |-> script.content]

\* data_service.update_job / update_podcast: a partial field merge; an update of
\* a record that is absent changes nothing and raises nothing.
update_job(js, job_id, upd) == IF Has(js, job_id) THEN Merge(js, job_id, upd) ELSE js
update_podcast(ps, podcast_id, upd) ==
    IF Has(ps, podcast_id) THEN Merge(ps, podcast_id, upd) ELSE ps

\* pending -> processing: progress 0
PipelineStart(j) ==
    /\ tasks[j].pc = "queued"
    /\ jobs' = update_job(jobs, j, [status |-> "processing", progress |-> 0])
    /\ tasks' = [tasks EXCEPT ![j].pc = "running", ![j].phase = 1]
    /\ last' = NoResponse
    /\ UNCHANGED <<podcasts, blobs, nextId, nextKey, served, accepted, uploaded_for,
                   svcvars>>

CurrentPhase(j) == Phases(jobs[j].type)[tasks[j].phase]

\* Whether the running phase can succeed in the current state: a fetch needs the blob.
CanSucceed(j) ==
    CurrentPhase(j) = "fetch" => tasks[j].s3_key \in blobs

\* The script phase of an ai-generate Job is generate_script_from_topic; the
\* other kinds build their script from the extraction, outside ai_service.
FromTopic(j) == jobs[j].type = "generate" /\ CurrentPhase(j) = "script"

\* The running phase ends well: its output is kept and progress moves on.
PipelinePhaseOk(j) ==
    /\ tasks[j].pc = "running"
    /\ tasks[j].phase <= Len(Phases(jobs[j].type))
    /\ CanSucceed(j)
    /\ jobs' = update_job(jobs, j, [progress |-> ProgressAfter(CurrentPhase(j))])
    /\ IF CurrentPhase(j) = "upload"
       THEN /\ blobs' = blobs \cup {nextKey}
            /\ nextKey' = nextKey + 1
            /\ tasks' = [tasks EXCEPT ![j].phase = @ + 1, ![j].audio = nextKey]
       ELSE /\ IF FromTopic(j)
               THEN \E r1 \in GeminiOutcomes, r2 \in GeminiOutcomes :
                      LET gen == generate_script_from_topic(r1, r2) IN
                      /\ ~gen.raised
                      /\ tasks' = [tasks EXCEPT ![j].phase = @ + 1, ![j].gen = gen]
               ELSE tasks' = [tasks EXCEPT ![j].phase = @ + 1]
            /\ UNCHANGED <<blobs, nextKey>>
    /\ last' = NoResponse
    /\ UNCHANGED <<podcasts, nextId, served, accepted, uploaded_for, svcvars>>

\* The running phase fails: the Job is failed with the error, nothing else runs.
PipelinePhaseFail(j) ==
    /\ tasks[j].pc = "running"
    /\ tasks[j].phase <= Len(Phases(jobs[j].type))
    /\ jobs' = update_job(jobs, j, [status |-> "failed",
                                    error_message |-> CurrentPhase(j)])
    /\ podcasts' = update_podcast(podcasts, tasks[j].podcast_id, [status |-> "failed"])
    /\ IF FromTopic(j)
       THEN \E r1 \in GeminiOutcomes, r2 \in GeminiOutcomes :
              LET gen == generate_script_from_topic(r1, r2) IN
              /\ gen.raised
              /\ tasks' = [tasks EXCEPT ![j].pc = "done", ![j].gen = gen]
       ELSE tasks' = [tasks EXCEPT ![j].pc = "done"]
    /\ last' = NoResponse
    /\ UNCHANGED <<blobs, nextId, nextKey, served, accepted, uploaded_for, svcvars>>

\* Every phase is through: the Content Item gets its audio, the Job is completed.
PipelineComplete(j) ==
    /\ tasks[j].pc = "running"
    /\ tasks[j].phase > Len(Phases(jobs[j].type))
    /\ podcasts' = update_podcast(podcasts, tasks[j].podcast_id,
                       [status |-> "completed",
                        audio_s3_key |-> IF jobs[j].type = "upload"
                                         THEN tasks[j].s3_key ELSE tasks[j].audio])
    /\ jobs' = update_job(jobs, j, [status |-> "completed", progress |-> 100])
    /\ tasks' = [tasks EXCEPT ![j].pc = "done"]
    /\ last' = NoResponse
    /\ UNCHANGED <<blobs, nextId, nextKey, served, accepted, uploaded_for, svcvars>>

Pipeline ==
    \E j \in DOMAIN tasks :
        \/ PipelineStart(j)
        \/ PipelinePhaseOk(j)
        \/ PipelinePhaseFail(j)
        \/ PipelineComplete(j)

\* --------------------------------------------------------------- segmenter
\* AIService._parse_dialogue_script (ai_service.py 356-474). A string is a
\* sequence of characters; the characters below stand for the classes the
\* speaker pattern tells apart.
Letters == {"A", "B", "C", "D", "x", "y"}   \* [A-Za-z\u4e00-\u9fa5]
Digits == {"1"}                              \* [0-9]
Whitespace == {" ", "\n"}                    \* \s
Colons == {":", "U+FF1A"}                    \* the ASCII and the full-width colon
LabelChars == Letters \cup Whitespace \cup Digits

voice_mappings ==
    [en |-> [primary |-> "CwhRBWXzGAHq8TQ4Fs17", secondary |-> "21m00Tcm4TlvDq8ikWAM"],
     zh |-> [primary |-> "CwhRBWXzGAHq8TQ4Fs17", secondary |-> "9BWtsMINqrJLrRacOk9x"]]

\* self.voice_mappings.get(language, self.voice_mappings["en"])
voices_for(language) ==
    IF language \in DOMAIN voice_mappings
    THEN voice_mappings[language] ELSE voice_mappings["en"]

\* str.strip, str.split, str.join
RECURSIVE lstrip(_)
lstrip(s) ==
    IF s # <<>> /\ Head(s) \in Whitespace THEN lstrip(Tail(s)) ELSE s

RECURSIVE rstrip(_)
rstrip(s) ==
    IF s # <<>> /\ s[Len(s)] \in Whitespace
    THEN rstrip(SubSeq(s, 1, Len(s) - 1)) ELSE s

strip(s) == rstrip(lstrip(s))

FirstIndex(s, chars) ==
    LET at == {i \in 1 .. Len(s) : s[i] \in chars} IN
    IF at = {} THEN 0 ELSE CHOOSE i \in at : \A k \in at : i <= k

RECURSIVE split(_, _)
split(s, sep) ==
    LET i == FirstIndex(s, {sep}) IN
    IF i = 0 THEN <<s>>
    ELSE <<SubSeq(s, 1, i - 1)>> \o split(SubSeq(s, i + 1, Len(s)), sep)

RECURSIVE join(_, _)
join(parts, sep) ==
    IF parts = <<>> THEN <<>>
    ELSE IF Len(parts) = 1 THEN parts[1]
    ELSE parts[1] \o <<sep>> \o join(Tail(parts), sep)

\* speaker_pattern (line 388), matched at the start of s with the default flags:
\* ^([letter][letter \s digit]*?)[colon]\s*(.*)$ . The lazy label ends at the first
\* colon; \s* runs over blanks and newlines; (.*) stays on one line and $ is the
\* end of s or the place before a newline that ends s. `tail` is what of s the
\* match does not cover.
speaker_pattern(s) ==
    LET i == FirstIndex(s, Colons)
        rest == lstrip(SubSeq(s, i + 1, Len(s)))
        ends_nl == rest # <<>> /\ rest[Len(rest)] = "\n"
        text == IF ends_nl THEN SubSeq(rest, 1, Len(rest) - 1) ELSE rest
    IN [matched |-> /\ i > 1
                    /\ s[1] \in Letters
                    /\ \A k \in 2 .. i - 1 : s[k] \in LabelChars
                    /\ \A k \in 1 .. Len(text) : text[k] # "\n",
        label |-> SubSeq(s, 1, i - 1),
        text |-> text,
        tail |-> IF ends_nl THEN <<"\n">> ELSE <<>>]

\* re.sub(speaker_pattern, r'\2', script)
sub_speaker_pattern(script) ==
    LET m == speaker_pattern(script) IN
    IF m.matched THEN m.text \o m.tail ELSE script

\* Every speaker after the second gets the secondary voice.
assign_voice_third_secondary(speaker_order, voices) ==
    IF Len(speaker_order) = 1 THEN voices["primary"] ELSE voices["secondary"]

\* Lines 423-431: the voice of a label seen for the first time; speaker_order
\* already holds the label.
assign_voice(speaker_order, voices) ==
    IF Len(speaker_order) = 1 THEN voices["primary"]
    ELSE IF Len(speaker_order) = 2 THEN voices["secondary"]
    ELSE IF Len(speaker_order) % 2 = 1 THEN voices["primary"]
    ELSE voices["secondary"]

\* DialogueInput(text, voice_id, ...). `speaker` is not a field of DialogueInput:
\* it keeps the label the segment was opened for (<<>> for the fallback segment).
DialogueInput(text, voice_id, speaker) ==
    [text |-> text, voice_id |-> voice_id, speaker |-> speaker]

\* The open text added as a segment also when no speaker has been seen yet.
save_current_without_speaker(loc) ==
    LET text == strip(join(loc.current_text, " ")) IN
    IF loc.current_text # <<>> /\ text # <<>>
    THEN [loc EXCEPT !.dialogue_inputs =
             Append(@, DialogueInput(text,
                                     IF loc.current_speaker \in DOMAIN loc.speaker_voice_map
                                     THEN loc.speaker_voice_map[loc.current_speaker]
                                     ELSE voice_mappings["en"]["primary"],
                                     loc.current_speaker))]
    ELSE loc

\* Lines 404-414 and 449-459: the open segment is added when it has text.
save_current(loc) ==
    LET text == strip(join(loc.current_text, " ")) IN
    IF loc.current_text # <<>> /\ loc.current_speaker # <<>> /\ text # <<>>
    THEN [loc EXCEPT !.dialogue_inputs =
             Append(@, DialogueInput(text, loc.speaker_voice_map[loc.current_speaker],
                                     loc.current_speaker))]
    ELSE loc

\* The locals of the call before, taken up again.
begin_parse_resumed(frame) == frame

\* Lines 369-394: the locals of a call; nothing of an earlier call is read
\* (None is the empty label here).
begin_parse(frame) ==
    [dialogue_inputs |-> <<>>, current_speaker |-> <<>>, current_text |-> <<>>,
     speaker_voice_map |-> <<>>, speaker_order |-> <<>>]

\* Lines 396-446: one pass of the loop body.
parse_line(loc, raw_line, voices) ==
    LET line == strip(raw_line)
        match == speaker_pattern(line)
    IN IF line = <<>> THEN loc
       ELSE IF match.matched
       THEN LET saved == save_current(loc)
                speaker_label == strip(match.label)
                actual_text == strip(match.text)
                known == speaker_label \in DOMAIN saved.speaker_voice_map
                order == IF known THEN saved.speaker_order
                         ELSE Append(saved.speaker_order, speaker_label)
            IN [saved EXCEPT
                  !.speaker_order = order,
                  !.speaker_voice_map =
                      IF known THEN @
                      ELSE Put(@, speaker_label, assign_voice(order, voices)),
                  !.current_speaker = speaker_label,
                  !.current_text = IF actual_text # <<>> THEN <<actual_text>>
                                   ELSE <<>>]
       ELSE [loc EXCEPT !.current_text = Append(@, line)]

RECURSIVE parse_lines(_, _, _)
parse_lines(loc, lines, voices) ==
    IF lines = <<>> THEN loc
    ELSE parse_lines(parse_line(loc, Head(lines), voices), Tail(lines), voices)

\* The whole function: the loop, the last segment, the single-voice fallback.
\* It returns the list; `frame` is what its locals held at the return.
parse_dialogue_script(frame, script, language) ==
    LET voices == voices_for(language)
        lines == split(strip(script), "\n")
        loc == save_current(parse_lines(begin_parse(frame), lines, voices))
    IN [dialogue_inputs |->
            IF Len(loc.dialogue_inputs) = 0
            THEN <<DialogueInput(strip(sub_speaker_pattern(script)),
                                 voices["primary"], <<>>)>>
            ELSE loc.dialogue_inputs,
        frame |-> loc]

\* The scripts: up to MaxLines lines, each one of these
ScriptLines ==
    { <<"A", ":", "x">>,             \* A:x
      <<"B", "U+FF1A", "x">>,        \* B, full-width colon, x
      <<"C", ":", " ", "x">>,        \* C: x
      <<"D", ":", "x">>,             \* D:x
      <<"A", ":">>,                  \* a label with nothing after the colon
      <<"x">>,                       \* a line without a label
      <<"y">>,                       \* another one
      <<>>,                          \* an empty line
      <<"1", ":", "x">> }            \* a colon, but no label before it

Scripts ==
    UNION {{join(ls, "\n") : ls \in [1 .. n -> ScriptLines]} : n \in 0 .. MaxLines}

Languages == {"en", "zh", "fr"}

\* The scripts of other speakers segmented in between
OtherScripts == { <<"D", ":", "x">>,
                  <<"D", ":", "x", "\n", "C", ":", "x">> }

NoFrame == [dialogue_inputs |-> <<>>, current_speaker |-> <<>>, current_text |-> <<>>,
            speaker_voice_map |-> <<>>, speaker_order |-> <<>>]

SegIdle ==
    /\ seg_script = <<>>
    /\ seg_language = "en"
    /\ seg_called = "none"
    /\ seg_out = <<>>
    /\ seg_first = [called |-> FALSE, out |-> <<>>]
    /\ seg_between = 0
    /\ seg_frame = NoFrame

\* ai_service._parse_dialogue_script(script, language) on the script under study
SegmentScript ==
    /\ LET r == parse_dialogue_script(seg_frame, seg_script, seg_language) IN
       /\ seg_out' = r.dialogue_inputs
       /\ seg_frame' = r.frame
       /\ seg_first' = IF seg_first.called THEN seg_first
                       ELSE [called |-> TRUE, out |-> r.dialogue_inputs]
    /\ seg_called' = "subject"
    /\ UNCHANGED <<seg_script, seg_language, seg_between, exvars, ytvars, dlgvars, vars>>

\* ... and on another script, once the script under study has been segmented
SegmentOther ==
    /\ seg_first.called
    /\ seg_between < MaxBetween
    /\ \E other \in OtherScripts :
         LET r == parse_dialogue_script(seg_frame, other, seg_language) IN
         /\ seg_out' = r.dialogue_inputs
         /\ seg_frame' = r.frame
    /\ seg_called' = "other"
    /\ seg_between' = seg_between + 1
    /\ UNCHANGED <<seg_script, seg_language, seg_first, exvars, ytvars, dlgvars, vars>>

\* --------------------------------------------------------------- extractor
\* ContentExtractor (content_extractor.py). The text the analysis capability
\* answers with is a sequence of tokens: a code fence (three backquotes), the word
\* json, blank space,
\* a JSON object, a JSON value that is no object, and other words.
ResponseTokens == {"FENCE", "json", " ", "{obj}", "[arr]", "x"}

Responses == UNION {[1 .. n -> ResponseTokens] : n \in 0 .. MaxTokens}

AUDIO_FORMATS == {".mp3", ".wav", ".m4a", ".ogg", ".flac"}
VIDEO_FORMATS == {".mp4", ".mov", ".avi", ".mkv", ".webm"}

\* The file names given to the extractor: those of the uploads, an upper-case
\* extension, a name that is only an extension (Path(".mp3").suffix is ""), a
\* name without extension and a supported extension that is not the last one.
ExFilenames == Filenames \cup {"TALK.MP3", ".mp3", "talk", "talk.mp3.txt"}

\* The format check answering for the content instead of the name.
validate_file_format_any(filename) == <<TRUE, "audio">>

\* validate_file_format(filename) -> (is_valid, file_type)
validate_file_format(filename) ==
    IF suffix(filename) \in AUDIO_FORMATS THEN <<TRUE, "audio">>
    ELSE IF suffix(filename) \in VIDEO_FORMATS THEN <<TRUE, "video">>
    ELSE <<FALSE, Null>>

StartsWith(s, prefix) ==
    Len(s) >= Len(prefix) /\ SubSeq(s, 1, Len(prefix)) = prefix

\* Lines 284-291: strip, drop a leading fence with json, a leading fence, a
\* trailing fence, strip
clean_markdown(content) ==
    LET c1 == strip(content)
        c2 == IF StartsWith(c1, <<"FENCE", "json">>) THEN SubSeq(c1, 3, Len(c1)) ELSE c1
        c3 == IF StartsWith(c2, <<"FENCE">>) THEN Tail(c2) ELSE c2
        c4 == IF c3 # <<>> /\ c3[Len(c3)] = "FENCE"
              THEN SubSeq(c3, 1, Len(c3) - 1) ELSE c3
    IN strip(c4)

\* json.loads(content): the text is one JSON value, blank space around it allowed
json_parses(content) == strip(content) \in {<<"{obj}">>, <<"[arr]">>}

NoAnalysis == [transcript |-> <<>>, summary |-> "", topics |-> <<>>,
               insights |-> <<>>, duration |-> 0]

\* What json.loads returns for the object of the token "{obj}"
ParsedObject == [transcript |-> <<"x">>, summary |-> "summary", topics |-> <<"topic">>,
                 insights |-> <<"insight">>, duration |-> 1]

\* The fixed summary text of the fallback (lines 304 and 430), in English
ANALYSIS_FAILED == "content analysis failed"

\* The decode error passed on to the caller.
json_decode_fallback_raises(content) ==
    [raised |-> TRUE, error |-> "JSONDecodeError", is_dict |-> FALSE,
     value |-> NoAnalysis]

\* Lines 298-308 and 424-434: except json.JSONDecodeError
json_decode_fallback(content) ==
    [raised |-> FALSE, error |-> "", is_dict |-> TRUE,
     value |-> [transcript |-> content, summary |-> ANALYSIS_FAILED,
                topics |-> <<>>, insights |-> <<>>, duration |-> 0]]

\* _analyze_audio_with_gemini, lines 271-311. json is imported inside the
\* function after the empty-response check, so an exception raised before the
\* import meets an except clause that cannot name json.JSONDecodeError: what
\* leaves the function then is an UnboundLocalError.
analyze_audio_with_gemini(outcome, response) ==
    IF outcome = "error" \/ response = <<>>
    THEN [raised |-> TRUE, error |-> "UnboundLocalError", is_dict |-> FALSE,
          value |-> NoAnalysis]
    ELSE LET content == clean_markdown(response) IN
         IF json_parses(content)
         THEN [raised |-> FALSE, error |-> "", is_dict |-> content = <<"{obj}">>,
               value |-> IF content = <<"{obj}">> THEN ParsedObject ELSE NoAnalysis]
         ELSE json_decode_fallback(content)

\* _analyze_video_with_gemini, lines 397-437: the same statements
analyze_video_with_gemini(outcome, response) ==
    IF outcome = "error" \/ response = <<>>
    THEN [raised |-> TRUE, error |-> "UnboundLocalError", is_dict |-> FALSE,
          value |-> NoAnalysis]
    ELSE LET content == clean_markdown(response) IN
         IF json_parses(content)
         THEN [raised |-> FALSE, error |-> "", is_dict |-> content = <<"{obj}">>,
               value |-> IF content = <<"{obj}">> THEN ParsedObject ELSE NoAnalysis]
         ELSE json_decode_fallback(content)

\* The returned dictionary, or the exception raised. calls is no key of the
\* dictionary: it counts the requests posted to the analysis capability.
NoExtraction == [raised |-> FALSE, error |-> "", transcript |-> <<>>, summary |-> "",
                 topics |-> <<>>, insights |-> <<>>, duration |-> 0,
                 file_type |-> "", original_filename |-> "", calls |-> 0]

ExtractionFailed(error) == [NoExtraction EXCEPT !.raised = TRUE, !.error = error]

\* Lines 101-113 and 162-174: analysis_result.get(...) for every field; a parsed
\* value that is no object has no get.
extraction_result(analysis, file_type, filename) ==
    IF analysis.raised THEN [ExtractionFailed(analysis.error) EXCEPT !.calls = 1]
    ELSE IF ~analysis.is_dict
    THEN [ExtractionFailed("AttributeError") EXCEPT !.calls = 1]
    ELSE [raised |-> FALSE, error |-> "", calls |-> 1,
          transcript |-> analysis.value.transcript,
          summary |-> analysis.value.summary,
          topics |-> analysis.value.topics,
          insights |-> analysis.value.insights,
          duration |-> analysis.value.duration,
          file_type |-> file_type, original_filename |-> filename]

\* extract_from_audio, lines 84-123
extract_from_audio(filename, outcome, response) ==
    LET valid == validate_file_format(filename) IN
    IF ~valid[1] \/ valid[2] # "audio" THEN ExtractionFailed("ValueError")
    ELSE extraction_result(analyze_audio_with_gemini(outcome, response),
                           "audio", filename)

\* extract_from_video, lines 145-184
extract_from_video(filename, outcome, response) ==
    LET valid == validate_file_format(filename) IN
    IF ~valid[1] \/ valid[2] # "video" THEN ExtractionFailed("ValueError")
    ELSE extraction_result(analyze_video_with_gemini(outcome, response),
                           "video", filename)

\* extract_from_file, lines 485-495
extract_from_file(filename, outcome, response) ==
    LET valid == validate_file_format(filename) IN
    IF ~valid[1] THEN ExtractionFailed("ValueError")
    ELSE IF valid[2] = "audio" THEN extract_from_audio(filename, outcome, response)
    ELSE extract_from_video(filename, outcome, response)

ExIdle ==
    /\ ex_filename = ""
    /\ ex_outcome = "error"
    /\ ex_response = <<>>
    /\ ex_entry = "none"
    /\ ex_result = NoExtraction

Extracted(entry, result) ==
    /\ ex_entry = "none"
    /\ ex_entry' = entry
    /\ ex_result' = result
    /\ UNCHANGED <<ex_filename, ex_outcome, ex_response, segvars, ytvars, dlgvars,
                   vars>>

ExtractFromAudio ==
    Extracted("extract_from_audio",
              extract_from_audio(ex_filename, ex_outcome, ex_response))

ExtractFromVideo ==
    Extracted("extract_from_video",
              extract_from_video(ex_filename, ex_outcome, ex_response))

ExtractFromFile ==
    Extracted("extract_from_file",
              extract_from_file(ex_filename, ex_outcome, ex_response))

\* ------------------------------------------ ai_service.generate_dialogue_audio
\* The synthesis capabilities answer with audio or fail. env tells what the
\* surroundings of one call do: whether DialogueInput can be imported, what
\* text_to_dialogue.convert does, and what the first and the second call of
\* text_to_speech.convert do.
SynthesisOutcomes == {"audio", "error"}

DialogueEnvs == [import_ok : BOOLEAN, multi : SynthesisOutcomes,
                 single : [1 .. 2 -> SynthesisOutcomes]]

DialogueScripts ==
    UNION {{join(ls, "\n") : ls \in [1 .. n -> ScriptLines]} : n \in 0 .. MaxDlgLines}

NoAudio == [kind |-> "none", text |-> <<>>, voice_id |-> "", inputs |-> <<>>]

TextToSpeech == [capability |-> "text_to_speech"]
TextToDialogue == [capability |-> "text_to_dialogue"]

\* generate_podcast_audio(text, language), lines 52-100: one call of
\* text_to_speech.convert in the primary voice of the language; every exception
\* is raised again
generate_podcast_audio(text, language, outcome) ==
    IF outcome = "error" THEN [raised |-> TRUE, audio |-> NoAudio]
    ELSE [raised |-> FALSE,
          audio |-> [kind |-> "single", text |-> text,
                     voice_id |-> voices_for(language)["primary"], inputs |-> <<>>]]

\* The scripts of one segment sent to the dialogue capability as well.
use_single_voice_never(dialogue_inputs) == FALSE

\* Line 327: if len(dialogue_inputs) <= 1
use_single_voice(dialogue_inputs) == Len(dialogue_inputs) <= 1

\* The failure passed on instead of the single-voice attempt.
single_voice_attempt_skipped(script, language, env, calls) ==
    [raised |-> TRUE, audio |-> NoAudio, calls |-> calls]

\* return self.generate_podcast_audio(script, language), at lines 330 and 354:
\* the next call of text_to_speech.convert, after the calls made so far
single_voice_attempt(script, language, env, calls) ==
    LET n == Cardinality({i \in DOMAIN calls : calls[i] = TextToSpeech}) + 1
        r == generate_podcast_audio(script, language, env.single[n])
    IN [raised |-> r.raised, audio |-> r.audio, calls |-> Append(calls, TextToSpeech)]

\* generate_dialogue_audio(script, language), lines 307-354. Whatever is raised
\* inside the try block, the failed import and the failed single-voice attempt
\* of line 330 included, is caught at line 351 and answered by line 354.
generate_dialogue_audio(script, language, env) ==
    IF ~env.import_ok THEN single_voice_attempt(script, language, env, <<>>)
    ELSE LET dialogue_inputs ==
                 parse_dialogue_script(NoFrame, script, language).dialogue_inputs
         IN IF use_single_voice(dialogue_inputs)
            THEN LET first == single_voice_attempt(script, language, env, <<>>) IN
                 IF first.raised
                 THEN single_voice_attempt(script, language, env, first.calls)
                 ELSE first
            ELSE IF env.multi = "error"
                 THEN single_voice_attempt(script, language, env, <<TextToDialogue>>)
                 ELSE [raised |-> FALSE,
                       audio |-> [kind |-> "dialogue", text |-> <<>>, voice_id |-> "",
                                  inputs |-> dialogue_inputs],
                       calls |-> <<TextToDialogue>>]

NoDialogueResult == [raised |-> FALSE, audio |-> NoAudio, calls |-> <<>>]

DlgIdle ==
    /\ dlg_script = <<>>
    /\ dlg_language = "en"
    /\ dlg_env = [import_ok |-> TRUE, multi |-> "audio",
                  single |-> [i \in 1 .. 2 |-> "audio"]]
    /\ dlg_called = "none"
    /\ dlg_result = NoDialogueResult

GenerateDialogueAudio ==
    /\ dlg_called = "none"
    /\ dlg_called' = "generate_dialogue_audio"
    /\ dlg_result' = generate_dialogue_audio(dlg_script, dlg_language, dlg_env)
    /\ UNCHANGED <<dlg_script, dlg_language, dlg_env, segvars, exvars, ytvars, vars>>

\* generate_podcast_audio called on its own, as the single-voice jobs do
GeneratePodcastAudio ==
    /\ dlg_called = "none"
    /\ dlg_called' = "generate_podcast_audio"
    /\ dlg_result' = single_voice_attempt(dlg_script, dlg_language, dlg_env, <<>>)
    /\ UNCHANGED <<dlg_script, dlg_language, dlg_env, segvars, exvars, ytvars, vars>>

\* ------------------------------------------------------- youtube_extractor.py
\* YouTubeExtractor. The video-analysis capability is asked with the URL of the
\* video; its answers are texts of up to MaxYtTokens tokens.
YtResponses == UNION {[1 .. n -> ResponseTokens] : n \in 0 .. MaxYtTokens}

VideoAnswers == {[outcome |-> "error", response |-> <<>>]}
                \cup [outcome : {"text"}, response : YtResponses]

\* The module imports tempfile, os, Path, typing, re, json and settings (lines
\* 5-11): the name yt_dlp that download_subtitles and extract_audio use is bound
\* nowhere.
yt_dlp_defined == FALSE

\* What a call returned or raised. calls lists the capabilities it asked, in
\* order: "video_analysis", "captions" (the subtitle download), "audio" (the
\* audio download).
YtRaised(calls) == [raised |-> TRUE, value |-> Null, is_dict |-> FALSE, calls |-> calls]

YtReturned(value, is_dict, calls) ==
    [raised |-> FALSE, value |-> value, is_dict |-> is_dict, calls |-> calls]

\* AIService._call_gemini_api_with_video: raise_for_status and a missing
\* candidate raise; otherwise the stripped text, which may be empty
call_gemini_api_with_video(answer) ==
    IF answer.outcome = "error" THEN YtRaised(<<"video_analysis">>)
    ELSE YtReturned(strip(answer.response), FALSE, <<"video_analysis">>)

\* Lines 127-135 and 216-225: the fences removed, then json.loads
loads_answer(called) ==
    IF called.raised THEN called
    ELSE LET text == clean_markdown(called.value) IN
         IF ~json_parses(text) THEN YtRaised(called.calls)
         ELSE YtReturned(text, text = <<"{obj}">>, called.calls)

\* extract_metadata, lines 90-164: metadata_json.get needs an object
extract_metadata(answer) ==
    LET parsed == loads_answer(call_gemini_api_with_video(answer)) IN
    IF parsed.raised \/ ~parsed.is_dict THEN YtRaised(parsed.calls)
    ELSE YtReturned("metadata", TRUE, parsed.calls)

\* _extract_with_gemini, lines 166-225: returns whatever json.loads returned
extract_with_gemini(answer) ==
    loads_answer(call_gemini_api_with_video(answer))

\* download_subtitles, lines 227-329: every exception ends in return None
download_subtitles(captions) ==
    IF ~yt_dlp_defined THEN YtReturned(Null, FALSE, <<>>)
    ELSE IF captions THEN YtReturned("captions", FALSE, <<"captions">>)
    ELSE YtReturned(Null, FALSE, <<"captions">>)

\* extract_audio, lines 360-447: every exception is raised again
extract_audio ==
    IF ~yt_dlp_defined THEN YtRaised(<<>>)
    ELSE YtReturned("audio", FALSE, <<"audio">>)

NoYtResult == [raised |-> FALSE, source |-> "", transcript |-> <<>>, calls |-> <<>>]

\* The extraction that asks for the captions and downloads the audio without them.
extract_content_captions_first(captions, meta, content) ==
    IF captions
    THEN [raised |-> FALSE, source |-> "captions", transcript |-> <<"x">>,
          calls |-> <<"captions">>]
    ELSE [raised |-> FALSE, source |-> "audio", transcript |-> <<"x">>,
          calls |-> <<"captions", "audio">>]

\* extract_content, lines 480-505: the metadata, then the content, both from the
\* video-analysis capability; content_analysis.get needs an object
extract_content(captions, meta, content) ==
    LET metadata == extract_metadata(meta) IN
    IF metadata.raised
    THEN [NoYtResult EXCEPT !.raised = TRUE, !.calls = metadata.calls]
    ELSE LET content_analysis == extract_with_gemini(content)
             calls == metadata.calls \o content_analysis.calls IN
         IF content_analysis.raised \/ ~content_analysis.is_dict
         THEN [NoYtResult EXCEPT !.raised = TRUE, !.calls = calls]
         ELSE [raised |-> FALSE, source |-> "gemini_video_analysis",
               transcript |-> ParsedObject.transcript, calls |-> calls]

YtIdle ==
    /\ yt_captions = FALSE
    /\ yt_meta = [outcome |-> "error", response |-> <<>>]
    /\ yt_content = [outcome |-> "error", response |-> <<>>]
    /\ yt_entry = "none"
    /\ yt_result = NoYtResult

YtCalled(entry, result) ==
    /\ yt_entry = "none"
    /\ yt_entry' = entry
    /\ yt_result' = result
    /\ UNCHANGED <<yt_captions, yt_meta, yt_content, segvars, exvars, dlgvars, vars>>

ExtractContent ==
    YtCalled("extract_content", extract_content(yt_captions, yt_meta, yt_content))

DownloadSubtitles ==
    LET r == download_subtitles(yt_captions) IN
    YtCalled("download_subtitles",
             [raised |-> r.raised, source |-> IF r.value = Null THEN "" ELSE "captions",
              transcript |-> IF r.value = Null THEN <<>> ELSE <<"x">>,
              calls |-> r.calls])

ExtractAudio ==
    LET r == extract_audio IN
    YtCalled("extract_audio",
             [raised |-> r.raised, source |-> IF r.raised THEN "" ELSE "audio",
              transcript |-> <<>>, calls |-> r.calls])

\* -------------------------------------------------------------------- spec
Init ==
    /\ podcasts = <<>>
    /\ jobs = <<>>
    /\ blobs = {}
    /\ tasks = <<>>
    /\ nextId = 1
    /\ nextKey = 1
    /\ served = 0
    /\ accepted = 0
    /\ uploaded_for = <<>>
    /\ last = NoResponse
    /\ SegIdle
    /\ ExIdle
    /\ YtIdle
    /\ DlgIdle

Next ==
    \/ upload_file
    \/ generate_podcast
    \/ analyze_and_generate_direct
    \/ analyze_and_generate_podcast
    \/ generate_from_youtube
    \/ delete_podcast
    \/ Pipeline

Spec == Init /\ [][Next]_vars

\* The same under fair scheduling of the background executions: an execution
\* that can take a step is not left waiting for ever, and a running phase ends,
\* well or by failing, because every capability call returns or times out.
SpecFair == Spec /\ WF_vars(Pipeline)

\* The segmenter on its own: every script and language, segmented, then again,
\* also after another script.
LifecycleIdle ==
    /\ podcasts = <<>>
    /\ jobs = <<>>
    /\ blobs = {}
    /\ tasks = <<>>
    /\ nextId = 1
    /\ nextKey = 1
    /\ served = 0
    /\ accepted = 0
    /\ uploaded_for = <<>>
    /\ last = NoResponse

SegInit ==
    /\ LifecycleIdle
    /\ seg_script \in Scripts
    /\ seg_language \in Languages
    /\ seg_called = "none"
    /\ seg_out = <<>>
    /\ seg_first = [called |-> FALSE, out |-> <<>>]
    /\ seg_between = 0
    /\ seg_frame = NoFrame
    /\ ExIdle
    /\ YtIdle
    /\ DlgIdle

SegNext ==
    \/ SegmentScript
    \/ SegmentOther

SpecSegment == SegInit /\ [][SegNext]_<<vars, svcvars>>

\* The extractor on its own: every file name and every answer of the capability
ExInit ==
    /\ LifecycleIdle
    /\ SegIdle
    /\ ex_filename \in ExFilenames
    /\ \/ ex_outcome = "error" /\ ex_response = <<>>
       \/ ex_outcome = "text" /\ ex_response \in Responses
    /\ ex_entry = "none"
    /\ ex_result = NoExtraction
    /\ YtIdle
    /\ DlgIdle

ExNext ==
    \/ ExtractFromAudio
    \/ ExtractFromVideo
    \/ ExtractFromFile

SpecExtract == ExInit /\ [][ExNext]_<<vars, svcvars>>

\* The YouTube extractor on its own: a video with or without captions and every
\* pair of answers of the video-analysis capability
YtInit ==
    /\ LifecycleIdle
    /\ SegIdle
    /\ ExIdle
    /\ yt_captions \in BOOLEAN
    /\ yt_meta \in VideoAnswers
    /\ yt_content \in VideoAnswers
    /\ yt_entry = "none"
    /\ yt_result = NoYtResult
    /\ DlgIdle

YtNext ==
    \/ ExtractContent
    \/ DownloadSubtitles
    \/ ExtractAudio

SpecYoutube == YtInit /\ [][YtNext]_<<vars, svcvars>>

\* The synthesis on its own: every script of up to MaxDlgLines lines, in every
\* language, with capabilities that answer or fail
DlgInit ==
    /\ LifecycleIdle
    /\ SegIdle
    /\ ExIdle
    /\ YtIdle
    /\ dlg_script \in DialogueScripts
    /\ dlg_language \in Languages
    /\ dlg_env \in DialogueEnvs
    /\ dlg_called = "none"
    /\ dlg_result = NoDialogueResult

DlgNext ==
    \/ GenerateDialogueAudio
    \/ GeneratePodcastAudio

SpecDialogue == DlgInit /\ [][DlgNext]_<<vars, svcvars>>

\* ----------------------------------------------------------- read endpoints
\* GET /{podcast_id}: 404 when the record is absent
get_podcast_status(podcast_id) ==
    IF get_podcast(podcasts, podcast_id) = <<>> THEN HTTP_404_NOT_FOUND ELSE HTTP_200_OK

\* The audio-ready check left out: the blob store is asked whatever the key is.
download_podcast_unguarded(podcast_id, url_ok) ==
    LET found == get_podcast(podcasts, podcast_id) IN
    IF found = <<>> THEN HTTP_404_NOT_FOUND
    ELSE IF ~url_ok THEN HTTP_500_INTERNAL_SERVER_ERROR
    ELSE HTTP_200_OK

\* GET /{podcast_id}/download: 404 without the record, 400 without produced
\* audio, 500 when no presigned URL could be made (url_ok is the blob store's answer)
download_podcast(podcast_id, url_ok) ==
    LET found == get_podcast(podcasts, podcast_id) IN
    IF found = <<>> THEN HTTP_404_NOT_FOUND
    ELSE IF found[1].audio_s3_key = None THEN HTTP_400_BAD_REQUEST
    ELSE IF ~url_ok THEN HTTP_500_INTERNAL_SERVER_ERROR
    ELSE HTTP_200_OK

\* GET /{podcast_id}/stream: the same checks, then the blob is read from the store
stream_podcast(podcast_id) ==
    LET found == get_podcast(podcasts, podcast_id) IN
    IF found = <<>> THEN HTTP_404_NOT_FOUND
    ELSE IF found[1].audio_s3_key = None THEN HTTP_400_BAD_REQUEST
    ELSE IF found[1].audio_s3_key \notin blobs THEN HTTP_500_INTERNAL_SERVER_ERROR
    ELSE HTTP_200_OK

\* ------------------------------------------------------------------ claims
CreationEndpoints == {"upload", "generate", "direct", "analyze", "youtube"}
Returned == last.endpoint \in CreationEndpoints
Made(name, arg, ok) == \E i \in 1 .. Len(last.calls) : last.calls[i] = <<name, arg, ok>>
MadeAt(i, name) == last.calls[i][1] = name
JobsOf(podcast_id) == {j \in DOMAIN jobs : jobs[j].podcast_id = podcast_id}

C2_UploadedBlobDeletedOnError ==
    /\ (/\ last.endpoint \in {"upload", "direct"}
        /\ last.code # HTTP_200_OK
        /\ last.uploaded # None
        /\ ~Made("delete_file", last.uploaded, FALSE))
           => last.uploaded \notin blobs
    /\ (last.endpoint = "analyze" /\ last.code # HTTP_200_OK)
           => \A i \in 1 .. Len(last.calls) : ~MadeAt(i, "delete_file")

\* C3: in a creation request the Job write comes after a successful Content Item
\* write and the start of the background execution after a successful Job write; a
\* request that returns an error has started no background execution, and no Job is
\* stored when the Content Item write failed.
C3_StepOrder ==
    /\ Returned =>
        /\ \A i \in 1 .. Len(last.calls) :
              /\ MadeAt(i, "save_job") =>
                    \E k \in 1 .. i - 1 :
                        last.calls[k] = <<"save_podcast", last.podcast_id, TRUE>>
              /\ MadeAt(i, "start_task") =>
                    /\ \E k \in 1 .. i - 1 :
                          last.calls[k] = <<"save_job", last.job_id, TRUE>>
                    /\ i = Len(last.calls)
        /\ last.code # HTTP_200_OK =>
              /\ \A i \in 1 .. Len(last.calls) : ~MadeAt(i, "start_task")
              /\ ~Has(tasks, last.job_id)
        /\ Made("save_podcast", last.podcast_id, FALSE) => ~Has(jobs, last.job_id)
    /\ \A j \in DOMAIN tasks : Has(jobs, j)

\* A request that made all three steps, and in this order.
C3_Witness ==
    /\ Returned
    /\ Len(last.calls) >= 3
    /\ last.calls[Len(last.calls) - 2] = <<"save_podcast", last.podcast_id, TRUE>>
    /\ last.calls[Len(last.calls) - 1] = <<"save_job", last.job_id, TRUE>>
    /\ last.calls[Len(last.calls)] = <<"start_task", last.job_id, TRUE>>

\* C4: when a creation request returns success, its Content Item is "processing", its
\* Job is "pending" with progress 0 and names that Content Item, the response carries
\* both identifiers with status "processing", and the background execution has not
\* taken a step.
C4_AcceptedState ==
    (Returned /\ last.code = HTTP_200_OK) =>
        /\ last.podcast_id # None /\ last.job_id # None
        /\ last.status = "processing"
        /\ Has(podcasts, last.podcast_id)
        /\ podcasts[last.podcast_id].status = "processing"
        /\ Has(jobs, last.job_id)
        /\ jobs[last.job_id].status = "pending"
        /\ jobs[last.job_id].progress = 0
        /\ jobs[last.job_id].podcast_id = last.podcast_id
        /\ Has(tasks, last.job_id)
        /\ tasks[last.job_id].pc = "queued"

\* A creation request has just returned success.
C4_Witness ==
    /\ Returned
    /\ last.code = HTTP_200_OK
    /\ last.endpoint = "upload"
    /\ jobs[last.job_id].status = "pending"

C6_DeleteRemovesRecordAndBlobs ==
    (/\ last.endpoint = "delete"
     /\ last.code = HTTP_200_OK
     /\ \A i \in 1 .. Len(last.calls) : last.calls[i][3])
        => /\ ~Has(podcasts, last.podcast_id)
           /\ get_podcast_status(last.podcast_id) = HTTP_404_NOT_FOUND
           /\ Has(uploaded_for, last.podcast_id) =>
                  uploaded_for[last.podcast_id] \notin blobs
           /\ \A j \in JobsOf(last.podcast_id) :
                  (jobs[j].status = "completed" /\ tasks[j].audio # None) =>
                      tasks[j].audio \notin blobs

\* C7: in DeleteContentItem every blob deletion comes before the record deletion,
\* the record deletion is always attempted, and when the record store accepts it the
\* record is gone and the request succeeds, whatever the blob deletions returned.
C7_BlobFailureDoesNotBlockDelete ==
    (last.endpoint = "delete" /\ last.code # HTTP_404_NOT_FOUND) =>
        LET n == Len(last.calls) IN
        /\ n >= 1
        /\ last.calls[n][1] = "delete_podcast"
        /\ last.calls[n][2] = last.podcast_id
        /\ \A i \in 1 .. n - 1 : MadeAt(i, "delete_file")
        /\ last.calls[n][3] =>
              /\ ~Has(podcasts, last.podcast_id)
              /\ last.code = HTTP_200_OK
        /\ ~last.calls[n][3] =>
              /\ Has(podcasts, last.podcast_id)
              /\ last.code = HTTP_500_INTERNAL_SERVER_ERROR

\* A blob deletion failed and the record was deleted all the same.
C7_Witness ==
    /\ last.endpoint = "delete"
    /\ last.code = HTTP_200_OK
    /\ \E i \in 1 .. Len(last.calls) : MadeAt(i, "delete_file") /\ ~last.calls[i][3]
    /\ ~Has(podcasts, last.podcast_id)

\* C8: a Job is created pending and its status only ever moves pending -> processing
\* -> completed or failed; a completed or failed Job keeps its status, and no Job
\* record disappears.
StatusMoves == {<<"pending", "processing">>, <<"processing", "completed">>,
                <<"processing", "failed">>}
C8_JobLifecycle ==
    [][/\ DOMAIN jobs \subseteq DOMAIN jobs'
       /\ \A j \in DOMAIN jobs' :
            IF Has(jobs, j)
            THEN \/ jobs'[j].status = jobs[j].status
                 \/ <<jobs[j].status, jobs'[j].status>> \in StatusMoves
            ELSE jobs'[j].status = "pending"]_vars

\* One Job went through to completed and another one failed.
C8_Witness ==
    /\ \E j \in DOMAIN jobs : jobs[j].status = "completed"
    /\ \E j \in DOMAIN jobs : jobs[j].status = "failed"

\* C9: the progress of every Job lies in 0..100 and no step lowers it.
C9_ProgressMonotonic ==
    [][\A j \in DOMAIN jobs' :
          /\ jobs'[j].progress \in 0 .. 100
          /\ Has(jobs, j) => jobs'[j].progress >= jobs[j].progress]_vars

\* A Job of each kind of ending: one at 100, one failed part-way.
C9_Witness ==
    /\ \E j \in DOMAIN jobs : jobs[j].progress = 100
    /\ \E j \in DOMAIN jobs : jobs[j].status = "failed" /\ jobs[j].progress = 60

\* C10: a Job has an error detail exactly when its status is failed.
C10_ErrorIffFailed ==
    \A j \in DOMAIN jobs : (jobs[j].error_message # Null) <=> (jobs[j].status = "failed")

\* A failed Job, with its error detail.
C10_Witness ==
    \E j \in DOMAIN jobs : jobs[j].status = "failed" /\ jobs[j].error_message # Null

\* C11: when a phase of a Job's pipeline fails the Job becomes failed with the error
\* recorded and its progress unchanged, the execution is over at that phase (no later
\* phase runs, no produced blob is made), and a failed Job and its execution never
\* change again, so it is never completed. A script generation in which a capability
\* call failed is such a failure.
FailedCall(gen) == \E i \in 1 .. Len(gen.calls) : gen.calls[i].outcome # "text"

C11_FailureHaltsPipeline ==
    [][\A j \in DOMAIN tasks :
         /\ (jobs[j].status # "failed" /\ jobs'[j].status = "failed") =>
               /\ jobs'[j].error_message # Null
               /\ jobs'[j].progress = jobs[j].progress
               /\ tasks'[j].pc = "done"
               /\ tasks'[j].phase = tasks[j].phase
               /\ tasks'[j].audio = tasks[j].audio
               /\ blobs' = blobs
         /\ jobs[j].status = "failed" => (jobs'[j] = jobs[j] /\ tasks'[j] = tasks[j])
         /\ FailedCall(tasks'[j].gen) => jobs'[j].status = "failed"]_vars

\* A Job failed in synthesis at progress 60, and a Job failed because the script
\* call of its script generation came back empty.
C11_Witness ==
    /\ \E j \in DOMAIN jobs :
         /\ jobs[j].status = "failed" /\ jobs[j].progress = 60
         /\ jobs[j].error_message = "synthesize" /\ tasks[j].audio = None
    /\ \E j \in DOMAIN jobs :
         /\ jobs[j].status = "failed" /\ Len(tasks[j].gen.calls) = 2
         /\ tasks[j].gen.calls[2].outcome = "empty"

\* C12: the status of a Content Item changes only from "processing" and only to
\* "completed" or "failed" (so at most once); a produced-audio reference is set only
\* on a completed Content Item; download and stream of a Content Item without a
\* produced-audio reference answer 400 (not ready).
C12_ContentItemStatus ==
    /\ [](\A p \in DOMAIN podcasts :
            /\ podcasts[p].audio_s3_key # None => podcasts[p].status = "completed"
            /\ podcasts[p].audio_s3_key = None =>
                  /\ \A url_ok \in BOOLEAN :
                        download_podcast(p, url_ok) = HTTP_400_BAD_REQUEST
                  /\ stream_podcast(p) = HTTP_400_BAD_REQUEST)
    /\ [][\A p \in DOMAIN podcasts \cap DOMAIN podcasts' :
            podcasts'[p].status # podcasts[p].status =>
                /\ podcasts[p].status = "processing"
                /\ podcasts'[p].status \in {"completed", "failed"}]_vars

\* One Content Item completed with its audio, which downloads, and one failed
\* without audio, whose download is refused.
C12_Witness ==
    /\ \E p \in DOMAIN podcasts :
         /\ podcasts[p].status = "completed" /\ podcasts[p].audio_s3_key \in blobs
         /\ download_podcast(p, TRUE) = HTTP_200_OK
         /\ stream_podcast(p) = HTTP_200_OK
    /\ \E p \in DOMAIN podcasts :
         /\ podcasts[p].status = "failed" /\ podcasts[p].audio_s3_key = None
         /\ stream_podcast(p) = HTTP_400_BAD_REQUEST

\* C13: deleting a Content Item leaves every background execution as it is; an
\* execution whose Content Item is gone goes on, its writes to the record change
\* nothing and do not fail the Job, and the record does not come back.
Gone(j) == ~Has(podcasts, tasks[j].podcast_id)

C13_DeleteDoesNotInterrupt ==
    [][/\ last'.endpoint = "delete" => (tasks' = tasks /\ jobs' = jobs)
       /\ \A j \in DOMAIN tasks :
            Gone(j) =>
              /\ ~Has(podcasts', tasks[j].podcast_id)
              /\ (tasks[j].pc = "running" /\ tasks'[j].pc = "done"
                    /\ tasks[j].phase > Len(Phases(jobs[j].type))) =>
                     (jobs'[j].status = "completed" /\ podcasts' = podcasts)]_vars

\* The only execution there is has just ended, completed, after its Content Item
\* was deleted: the record is still absent.
C13_Witness ==
    /\ last = NoResponse
    /\ accepted = 1
    /\ \E j \in DOMAIN tasks :
         /\ tasks[j].pc = "done" /\ jobs[j].status = "completed"
         /\ Gone(j)
         /\ get_podcast_status(tasks[j].podcast_id) = HTTP_404_NOT_FOUND

\* The labels of a script in the order of their first appearance: the label of
\* every line that, stripped, matches the speaker pattern.
RECURSIVE FirstAppearances(_, _)
FirstAppearances(lines, seen) ==
    IF lines = <<>> THEN seen
    ELSE LET m == speaker_pattern(strip(Head(lines)))
             label == strip(m.label)
         IN IF m.matched /\ \A k \in 1 .. Len(seen) : seen[k] # label
            THEN FirstAppearances(Tail(lines), Append(seen, label))
            ELSE FirstAppearances(Tail(lines), seen)

SpeakerLabels(script) == FirstAppearances(split(strip(script), "\n"), <<>>)
RankOf(label, labels) == CHOOSE k \in 1 .. Len(labels) : labels[k] = label
Segmented == seg_called = "subject"

\* C14: every segment opened for a label carries the voice of that label's rank
\* among the labels of the script in order of first appearance: rank 1 the primary
\* voice of the language, rank 2 the secondary, a later rank the primary when odd and
\* the secondary when even.
C14_VoiceByFirstAppearance ==
    Segmented =>
      LET labels == SpeakerLabels(seg_script)
          voices == voices_for(seg_language)
      IN \A i \in 1 .. Len(seg_out) :
           seg_out[i].speaker # <<>> =>
             /\ \E k \in 1 .. Len(labels) : labels[k] = seg_out[i].speaker
             /\ seg_out[i].voice_id =
                  IF RankOf(seg_out[i].speaker, labels) % 2 = 1
                  THEN voices["primary"] ELSE voices["secondary"]

\* Three speakers and the first one back after the third: four segments, the
\* first, third and fourth in the primary voice.
C14_Witness ==
    /\ Segmented
    /\ seg_language = "zh"
    /\ Len(SpeakerLabels(seg_script)) = 3
    /\ Len(seg_out) = 4
    /\ seg_out[4].speaker = seg_out[1].speaker
    /\ seg_out[3].speaker # seg_out[1].speaker
    /\ seg_out[3].voice_id = voice_mappings["zh"]["primary"]
    /\ seg_out[2].voice_id = voice_mappings["zh"]["secondary"]

\* C15 (as stated): a script none of whose lines matches the speaker pattern gives
\* exactly one segment, in the primary voice, whose text is the stripped script.
NoLabelledLine(script) ==
    LET lines == split(script, "\n") IN
    \A k \in 1 .. Len(lines) : ~speaker_pattern(strip(lines[k])).matched

C15_UnlabelledScriptIsOneSegment ==
    (Segmented /\ NoLabelledLine(seg_script)) =>
       /\ Len(seg_out) = 1
       /\ seg_out[1].voice_id = voices_for(seg_language)["primary"]
       /\ seg_out[1].text = strip(seg_script)

\* C16 (as stated): whatever the script, every segment returned has text.
C16_SegmentTextNonEmpty ==
    Segmented => \A i \in 1 .. Len(seg_out) : seg_out[i].text # <<>>

\* C17 (as stated): no two adjacent segments were opened for the same label.
C17_AdjacentSegmentsDiffer ==
    Segmented =>
      \A i \in 1 .. Len(seg_out) - 1 : seg_out[i].speaker # seg_out[i + 1].speaker

C19_TwoPhaseScript ==
    \A j \in DOMAIN tasks :
        LET gen == tasks[j].gen IN
        /\ Len(gen.calls) <= 2
        /\ Len(gen.calls) >= 1 => gen.calls[1].prompt = "outline"
        /\ Len(gen.calls) = 2 =>
              (gen.calls[1].outcome = "text" /\ gen.calls[2].prompt = "script")
        /\ FailedCall(gen) => (gen.raised /\ gen.script = Null)
        /\ (gen # NoScript /\ ~FailedCall(gen)) =>
              /\ ~gen.raised /\ Len(gen.calls) = 2
              /\ gen.script = GeminiText("script", "text")

\* One generation stopped by an empty outline after a single call, one that
\* returned the script after two.
C19_Witness ==
    /\ \E j \in DOMAIN tasks :
         /\ Len(tasks[j].gen.calls) = 1 /\ tasks[j].gen.calls[1].outcome = "empty"
         /\ tasks[j].gen.raised
    /\ \E j \in DOMAIN tasks :
         /\ Len(tasks[j].gen.calls) = 2 /\ ~tasks[j].gen.raised

\* The call of Extract reached the analysis: the entry point was given a file of
\* its own kind, and the capability answered with a non-empty text.
AnalysisAnswered ==
    /\ ex_entry # "none"
    /\ ex_outcome = "text"
    /\ ex_response # <<>>
    /\ \/ ex_entry = "extract_from_audio" /\ suffix(ex_filename) \in AUDIO_FORMATS
       \/ ex_entry = "extract_from_video" /\ suffix(ex_filename) \in VIDEO_FORMATS
       \/ ex_entry = "extract_from_file"
          /\ suffix(ex_filename) \in AUDIO_FORMATS \cup VIDEO_FORMATS

DegradedResult(transcript) ==
    /\ ~ex_result.raised
    /\ ex_result.transcript = transcript
    /\ ex_result.topics = <<>>
    /\ ex_result.insights = <<>>
    /\ ex_result.summary = ANALYSIS_FAILED

\* The response after these removals, in this order: the blank space around it, a
\* code fence followed by the word json at its start, a code fence at its start,
\* a code fence at its end, the blank space around what is left.
Unfenced(response) ==
    LET s == strip(response)
        from == IF Len(s) >= 2 /\ s[1] = "FENCE" /\ s[2] = "json" THEN 3 ELSE 1
        rest == [i \in 1 .. Len(s) - from + 1 |-> s[i + from - 1]]
        body == IF Len(rest) >= 1 /\ rest[1] = "FENCE"
                THEN [i \in 1 .. Len(rest) - 1 |-> rest[i + 1]] ELSE rest
        upto == IF Len(body) >= 1 /\ body[Len(body)] = "FENCE"
                THEN Len(body) - 1 ELSE Len(body)
    IN strip([i \in 1 .. upto |-> body[i]])

UnsupportedNames == {"", "notes.exe", ".mp3", "talk", "talk.mp3.txt"}

KindOfName(filename) ==
    IF filename \in {"talk.mp3", "TALK.MP3"} THEN "audio" ELSE "video"

\* C21: Extract determines the media kind from the extension of the file name
\* alone: for every name whose extension is neither a supported audio nor a
\* supported video extension, the empty name included, it raises a format error
\* and no request has been posted to the analysis capability; for every other
\* name the analysis is asked once and a returned result carries the kind of the
\* extension, whatever the capability answered.
C21_UnsupportedNameRejectedBeforeAnalysis ==
    /\ (ex_entry # "none" /\ ex_filename \in UnsupportedNames) =>
          /\ ex_result.raised
          /\ ex_result.error = "ValueError"
          /\ ex_result.calls = 0
    /\ (ex_entry = "extract_from_file" /\ ex_filename \notin UnsupportedNames) =>
          /\ ex_result.calls = 1
          /\ ~ex_result.raised => ex_result.file_type = KindOfName(ex_filename)

\* The empty name was given, with a capability ready to answer, and rejected.
C21_Witness ==
    /\ ex_entry = "extract_from_file"
    /\ ex_filename = ""
    /\ ex_outcome = "text"
    /\ ex_response = <<"{obj}">>
    /\ ex_result.raised
    /\ ex_result.calls = 0

\* C26: for every non-empty response text returned by the analysis capability
\* for an audio or video file, a JSON object, valid JSON of another shape or
\* unparseable text, Extract returns a result and never raises.
C26_NonEmptyResponseNeverRaises ==
    AnalysisAnswered => ~ex_result.raised

PathsTaken(calls) == {calls[i] : i \in DOMAIN calls} \cap {"captions", "audio"}

InvalidFile(file) ==
    \/ file.filename = ""
    \/ file.filename = "notes.exe"
    \/ file.size > max_upload_size
    \/ file.size = 0

ValidationRejects ==
    /\ \A file \in Files : InvalidFile(file) <=> ~validate_file(file)[1]
    /\ \A url \in Urls :
          url # "https://www.youtube.com/watch?v=dQw4w9WgXcQ" <=> ~validate_url(url)[1]
    /\ "invalid" \in SourceTypes

RejectedWithoutEffect ==
    (/\ served' = served + 1
     /\ last'.endpoint \in CreationEndpoints
     /\ last'.code = HTTP_400_BAD_REQUEST)
        => /\ last'.calls = <<>>
           /\ blobs' = blobs
           /\ podcasts' = podcasts
           /\ jobs' = jobs
           /\ tasks' = tasks

\* C23: input validation rejects a missing file name, a disallowed extension, an
\* oversized or empty file and a URL that is not a YouTube URL, and a creation
\* request answered with the validation error (400) has had no side effect: it
\* called no collaborator, so no blob was uploaded, no Content Item or Job was
\* written and no background execution was started.
C23_ValidationErrorHasNoSideEffect ==
    []ValidationRejects /\ [][RejectedWithoutEffect]_vars

\* A request rejected with 400 after an accepted one, whose records, blob and
\* task are all still there.
C23_Witness ==
    /\ Returned
    /\ last.code = HTTP_400_BAD_REQUEST
    /\ last.calls = <<>>
    /\ served = 2
    /\ accepted = 1
    /\ DOMAIN podcasts # {}
    /\ DOMAIN jobs # {}
    /\ blobs # {}

\* The lines of a script, each stripped, and the positions of those that match
\* the speaker pattern.
StrippedLines(script) ==
    LET lines == split(strip(script), "\n") IN
    [i \in 1 .. Len(lines) |-> strip(lines[i])]

LabelPositions(lines) == {i \in 1 .. Len(lines) : speaker_pattern(lines[i]).matched}

\* The turn opened at label position p: it runs to the line before the next
\* label position, or to the last line. Its fragments are the text after the
\* colon of line p and the lines that follow, the empty ones left out.
TurnEnd(lines, p) ==
    LET later == {q \in LabelPositions(lines) : q > p} IN
    IF later = {} THEN Len(lines)
    ELSE (CHOOSE q \in later : \A r \in later : q <= r) - 1

TurnText(lines, p) ==
    LET fragments == [i \in 1 .. TurnEnd(lines, p) - p + 1 |->
                         IF i = 1 THEN strip(speaker_pattern(lines[p]).text)
                         ELSE lines[p + i - 1]]
    IN join(SelectSeq(fragments, LAMBDA f : f # <<>>), " ")

\* The texts of the turns that have text, in the order of their labels.
RECURSIVE TurnTexts(_, _)
TurnTexts(lines, from) ==
    LET later == {q \in LabelPositions(lines) : q >= from} IN
    IF later = {} THEN <<>>
    ELSE LET p == CHOOSE q \in later : \A r \in later : q <= r
             text == TurnText(lines, p)
         IN (IF text = <<>> THEN <<>> ELSE <<text>>) \o TurnTexts(lines, p + 1)

\* C24 (as stated): for every script with at least one line that matches the
\* speaker pattern, the texts of the returned segments are, in order, the texts
\* of its turns: the text after the colon of the label line (when there is any)
\* and the unlabelled non-blank lines up to the next label line, joined by single
\* spaces; a turn without text gives no segment.
C24_SegmentTextIsItsTurn ==
    (Segmented /\ LabelPositions(StrippedLines(seg_script)) # {}) =>
        [i \in 1 .. Len(seg_out) |-> seg_out[i].text]
            = TurnTexts(StrippedLines(seg_script), 1)

\* The same, for the scripts in which some turn has text.
C24_SegmentTextIsItsTurn_WhenSomeTurnHasText ==
    (Segmented /\ TurnTexts(StrippedLines(seg_script), 1) # <<>>) =>
        [i \in 1 .. Len(seg_out) |-> seg_out[i].text]
            = TurnTexts(StrippedLines(seg_script), 1)

\* What the lines from position first on have to say, in order: of a label line
\* the text after the colon, of another line the line; those without text left
\* out.
Contributions(lines, first) ==
    SelectSeq([i \in 1 .. Len(lines) - first + 1 |->
                  LET m == speaker_pattern(lines[first + i - 1]) IN
                  IF m.matched THEN strip(m.text) ELSE lines[first + i - 1]],
              LAMBDA f : f # <<>>)

FirstLabelPosition(lines) ==
    CHOOSE p \in LabelPositions(lines) : \A q \in LabelPositions(lines) : p <= q

HasLabelledSegment == \E i \in 1 .. Len(seg_out) : seg_out[i].speaker # <<>>

\* C28: when a labelled segment is returned, the texts of the segments, read one
\* after the other, are the texts of the non-blank lines from the first label
\* line on, each once and in input order; no line before the first label line is
\* in any segment.
C28_LinesAfterFirstLabelOnce ==
    (Segmented /\ HasLabelledSegment) =>
        LET lines == StrippedLines(seg_script) IN
        /\ LabelPositions(lines) # {}
        /\ join([i \in 1 .. Len(seg_out) |-> seg_out[i].text], " ")
             = join(Contributions(lines, FirstLabelPosition(lines)), " ")

\* y, A:x, y, B:x : the first y is in no segment, the second in the segment of A.
C28_Witness ==
    /\ Segmented
    /\ seg_script = <<"y", "\n", "A", ":", "x", "\n", "y", "\n", "B", "U+FF1A", "x">>
    /\ Len(seg_out) = 2
    /\ seg_out[1].text = <<"x", " ", "y">>
    /\ seg_out[2].text = <<"x">>

\* What Segment returns for the script given to the synthesis, and the calls of
\* one capability among the calls made.
SegmentsOf(script, language) ==
    parse_dialogue_script(NoFrame, script, language).dialogue_inputs

CallsOf(capability) ==
    {i \in DOMAIN dlg_result.calls : dlg_result.calls[i].capability = capability}

DialogueCalled == dlg_called = "generate_dialogue_audio"

\* C25: generate_dialogue_audio calls the multi-voice capability only when
\* Segment returns two or more segments; when Segment returns at most one
\* segment it takes the single-voice path, with the whole script, and never
\* calls the multi-voice capability.
C25_MultiVoiceOnlyForSeveralSegments ==
    DialogueCalled =>
        LET segments == SegmentsOf(dlg_script, dlg_language) IN
        /\ CallsOf("text_to_dialogue") # {} => Len(segments) >= 2
        /\ Len(segments) <= 1 =>
              /\ CallsOf("text_to_dialogue") = {}
              /\ dlg_result.calls[1] = TextToSpeech
              /\ ~dlg_result.raised =>
                    /\ dlg_result.audio.kind = "single"
                    /\ dlg_result.audio.text = dlg_script

\* A script of one speaker, synthesised by one single-voice call.
C25_Witness ==
    /\ DialogueCalled
    /\ dlg_env.import_ok
    /\ dlg_script = <<"A", ":", "x">>
    /\ dlg_result.calls = <<TextToSpeech>>
    /\ dlg_result.audio.kind = "single"

\* C27: in one call of generate_dialogue_audio the multi-voice capability is
\* called at most once; when that call fails, a single-voice synthesis of the
\* whole script is attempted next and its audio is what is returned; the call
\* raises only when the single-voice attempt made last has failed, never after
\* a multi-voice failure alone.
C27_MultiVoiceFailureFallsBack ==
    DialogueCalled =>
        /\ Cardinality(CallsOf("text_to_dialogue")) <= 1
        /\ (CallsOf("text_to_dialogue") # {} /\ dlg_env.multi = "error") =>
              /\ dlg_result.calls = <<TextToDialogue, TextToSpeech>>
              /\ dlg_env.single[1] = "audio" =>
                    /\ ~dlg_result.raised
                    /\ dlg_result.audio.kind = "single"
                    /\ dlg_result.audio.text = dlg_script
        /\ dlg_result.raised =>
              /\ CallsOf("text_to_speech") # {}
              /\ dlg_result.calls[Len(dlg_result.calls)] = TextToSpeech
              /\ dlg_env.single[Cardinality(CallsOf("text_to_speech"))] = "error"

\* Two speakers, the multi-voice call failed, the single-voice audio returned.
C27_Witness ==
    /\ DialogueCalled
    /\ dlg_env.multi = "error"
    /\ dlg_result.calls = <<TextToDialogue, TextToSpeech>>
    /\ ~dlg_result.raised
    /\ dlg_result.audio.kind = "single"

\* The blobs of a Content Item: the keys its record holds.
OwnBlobs(podcast_id) ==
    IF Has(podcasts, podcast_id)
    THEN {podcasts[podcast_id].s3_key, podcasts[podcast_id].audio_s3_key} \ {None}
    ELSE {}

DeleteFrame ==
    last'.endpoint = "delete" =>
        LET target == last'.podcast_id IN
        /\ jobs' = jobs
        /\ tasks' = tasks
        /\ DOMAIN podcasts \ {target} \subseteq DOMAIN podcasts'
        /\ DOMAIN podcasts' \subseteq DOMAIN podcasts
        /\ \A p \in DOMAIN podcasts' : podcasts'[p] = podcasts[p]
        /\ blobs' \subseteq blobs
        /\ blobs \ blobs' \subseteq OwnBlobs(target)

\* C29: a delete request changes nothing but the record of the Content Item it
\* names and the blobs whose keys that record holds: every Job, the Job of the
\* deleted Content Item included, every execution, every other Content Item and
\* every other blob are as before.
C29_DeleteChangesOnlyItsTarget ==
    [][DeleteFrame]_vars

\* A Content Item deleted with success while its Job, another Content Item and
\* another blob are still there.
C29_Witness ==
    /\ last.endpoint = "delete"
    /\ last.code = HTTP_200_OK
    /\ ~Has(podcasts, last.podcast_id)
    /\ \E j \in DOMAIN jobs : jobs[j].podcast_id = last.podcast_id
    /\ DOMAIN podcasts # {}
    /\ blobs # {}

\* The identifiers a behaviour can give to its Jobs.
JobIds == 1 .. 2 * MaxReq

Terminal(j) == Has(jobs, j) /\ jobs[j].status \in {"completed", "failed"}

\* C30: under fair scheduling, with every capability call returning or timing
\* out, every Job written by a creation request that was answered with success
\* is eventually completed or failed: none stays pending or processing for ever.
C30_EveryJobTerminates ==
    \A j \in JobIds : Has(jobs, j) ~> Terminal(j)

\* One Job completed and another failed.
C30_Witness ==
    /\ \E j \in DOMAIN jobs : jobs[j].status = "completed"
    /\ \E j \in DOMAIN jobs : jobs[j].status = "failed"
    /\ \A j \in DOMAIN jobs : Has(tasks, j) /\ tasks[j].pc = "done"
====
